---- MODULE Spec2Model ----
(***************************************************************************)
(* Model of backend/server.py of the climate platform: the mock weather    *)
(* generators, the time-series generators, the risk scorer, the            *)
(* sustainability trends and the scenario endpoint, over the process-wide  *)
(* generator of Python's `random` module and the wall clock.               *)
(*                                                                         *)
(* Numbers.  Every weather and risk quantity is a fixed-point integer in   *)
(* hundredths of its unit (temperature 25.3 is 2530, wind direction 360    *)
(* degrees is 36000).  round(x, 1) therefore yields a multiple of 10 and   *)
(* round(x, 0) a multiple of 100.  Arithmetic is exact rational arithmetic *)
(* on that grid, rounding is round-half-to-even as in Python.  Latitudes   *)
(* are in tenths of a degree, longitudes in thousandths, rainfall_change   *)
(* in whole percent, temperature_change in tenths of a degree.             *)
(*                                                                         *)
(* Time.  An instant is an integer number of ticks of ten minutes,         *)
(* TicksPerDay ticks to the day; tick 0 is 1 January, 00:00 of a non-leap  *)
(* year.  The clock starts at 23:40 on 30 January, so that it can pass     *)
(* midnight.                                                               *)
(*                                                                         *)
(* Accounts.  users is the users collection of the database in insertion   *)
(* order, calls the bag of handlers suspended at an await.  A field that is None  *)
(* in Python is Null (text fields) or None (numbers).                      *)
(***************************************************************************)
EXTENDS Integers, Sequences, FiniteSets, Bags, TLC

VARIABLES rng, clock, ret, memo, users, calls

vars == <<rng, clock, ret, memo, users, calls>>

(***************************************************************************)
(* Bounds of the model                                                     *)
(***************************************************************************)
MaxDays == 12
ClockStart == 4318
MaxClock == 4320
MaxAdvance == 1

(***************************************************************************)
(* Python numerics                                                         *)
(***************************************************************************)
Max(a, b) == IF a >= b THEN a ELSE b

Min(a, b) == IF a <= b THEN a ELSE b

Abs(a) == IF a < 0 THEN -a ELSE a

\* round(): the quotient num/den rounded to the nearest integer, ties to even.
RoundHalfEven(num, den) ==
    LET q == num \div den
        r == num % den
    IN  IF 2 * r < den THEN q
        ELSE IF 2 * r > den THEN q + 1
        ELSE IF q % 2 = 0 THEN q ELSE q + 1

\* round(x, 1) of a value in ten-thousandths, result in hundredths.
Round1(x) == 10 * RoundHalfEven(x, 1000)

\* round(x, 0) of a value in ten-thousandths, result in hundredths.
Round0(x) == 100 * RoundHalfEven(x, 10000)

\* round(x, 2) of a value in ten-thousandths, result in hundredths.
Round2(x) == RoundHalfEven(x, 100)

(***************************************************************************)
(* The generator of the `random` module.  The Mersenne Twister is          *)
(* abstracted to a generator with RngMod states: seeding fixes the state   *)
(* from the seed alone, every draw returns the output of the current state *)
(* (a number of thousandths in 0..999, i.e. a float in [0, 1)) and steps   *)
(* the state along one full cycle.                                         *)
(***************************************************************************)
RngMod == 8

RngStates == 0 .. (RngMod - 1)

DrawTable == <<0, 999, 500, 1, 250, 750, 998, 137>>

\* random.seed(a): the state becomes a function of the seed only.
SeedKeepsState(g, a) == g

Seed(g, a) == a % RngMod

\* random.random(): the output u (thousandths) and the generator after it.
Random(g) == [u |-> DrawTable[g + 1], rng |-> (5 * g + 3) % RngMod]

\* random.uniform(a, b) = a + (b - a) * random(); a, b in tenths, the value v
\* in ten-thousandths.
Uniform(g, a, b) ==
    LET r == Random(g)
    IN  [v |-> 1000 * a + (b - a) * r.u, rng |-> r.rng]

\* random.randint(100000, 999999)
RandInt(g, lo, hi) ==
    LET r == Random(g)
    IN  [v |-> lo + ((hi - lo + 1) * r.u) \div 1000, rng |-> r.rng]

generate_otp(g) == RandInt(g, 100000, 999999)

(***************************************************************************)
(* datetime                                                                *)
(***************************************************************************)
TicksPerDay == 144

MonthLengths == <<31, 28, 31, 30, 31, 30, 31, 31, 30, 31, 30, 31>>

RECURSIVE DayInMonth(_, _)
DayInMonth(dayOfYear, m) ==
    IF m > 12 THEN DayInMonth(dayOfYear - 365, 1)
    ELSE IF dayOfYear < MonthLengths[m] THEN dayOfYear + 1
    ELSE DayInMonth(dayOfYear - MonthLengths[m], m + 1)

\* datetime.day: the day of the month, 1..31, of an instant.
DayOf(t) == DayInMonth(t \div TicksPerDay, 1)

\* t - timedelta(days = i) and t + timedelta(days = i)
MinusDays(t, i) == t - i * TicksPerDay

PlusDays(t, i) == t + i * TicksPerDay

\* base_date = None
None == -1

(***************************************************************************)
(* generate_mock_weather                                                   *)
(***************************************************************************)
\* seed_val = int((lat * 1000 + lon * 100) % 10000): the float remainder has
\* the sign of the divisor, int() drops its fraction.
SeedVal(lat, lon) == ((1000 * lat + lon) % 100000) \div 10

\* base_rainfall = max(0, random.uniform(-10, 50))
BaseRainfallUnfloored(u) == u

BaseRainfall(u) == Max(0, u)

\* min(100, max(0, base_humidity))
ClampPercent(h) == Min(1000000, Max(0, h))

\* the draws taken in the order in which the fields are written in the
\* returned dictionary
generate_mock_weather_field_order(g, now, lat, lon, base_date) ==
    LET date == IF base_date = None THEN now ELSE base_date
        g0 == Seed(g, SeedVal(lat, lon) + DayOf(date))
        d1 == Uniform(g0, -50, 50)
        base_temp == 250000 - Abs(lat) * 500 + d1.v
        d4 == Uniform(d1.rng, -30, 30)
        d2 == Uniform(d4.rng, -200, 300)
        base_humidity == 500000 + d2.v
        d5 == Uniform(d2.rng, -200, 200)
        d6 == Uniform(d5.rng, 0, 250)
        d7 == Uniform(d6.rng, 0, 3600)
        d3 == Uniform(d7.rng, -100, 500)
        base_rainfall == BaseRainfall(d3.v)
        d8 == Uniform(d3.rng, 0, 1000)
        d9 == Uniform(d8.rng, 10, 110)
        d10 == Uniform(d9.rng, 50, 200)
    IN  [val |-> [temperature |-> Round1(base_temp),
                  feels_like |-> Round1(base_temp + d4.v),
                  humidity |-> Round1(ClampPercent(base_humidity)),
                  pressure |-> Round1(10130000 + d5.v),
                  wind_speed |-> Round1(d6.v),
                  wind_direction |-> Round0(d7.v),
                  rainfall |-> Round1(base_rainfall),
                  cloud_cover |-> Round1(d8.v),
                  uv_index |-> Round1(d9.v),
                  visibility |-> Round1(d10.v)],
         rng |-> d10.rng]

generate_mock_weather(g, now, lat, lon, base_date) ==
    LET date == IF base_date = None THEN now ELSE base_date
        g0 == Seed(g, SeedVal(lat, lon) + DayOf(date))
        d1 == Uniform(g0, -50, 50)
        base_temp == 250000 - Abs(lat) * 500 + d1.v
        d2 == Uniform(d1.rng, -200, 300)
        base_humidity == 500000 + d2.v
        d3 == Uniform(d2.rng, -100, 500)
        base_rainfall == BaseRainfall(d3.v)
        d4 == Uniform(d3.rng, -30, 30)
        d5 == Uniform(d4.rng, -200, 200)
        d6 == Uniform(d5.rng, 0, 250)
        d7 == Uniform(d6.rng, 0, 3600)
        d8 == Uniform(d7.rng, 0, 1000)
        d9 == Uniform(d8.rng, 10, 110)
        d10 == Uniform(d9.rng, 50, 200)
    IN  [val |-> [temperature |-> Round1(base_temp),
                  feels_like |-> Round1(base_temp + d4.v),
                  humidity |-> Round1(ClampPercent(base_humidity)),
                  pressure |-> Round1(10130000 + d5.v),
                  wind_speed |-> Round1(d6.v),
                  wind_direction |-> Round0(d7.v),
                  rainfall |-> Round1(base_rainfall),
                  cloud_cover |-> Round1(d8.v),
                  uv_index |-> Round1(d9.v),
                  visibility |-> Round1(d10.v)],
         rng |-> d10.rng]

(***************************************************************************)
(* calculate_sustainability_trends                                         *)
(***************************************************************************)
TrendsSeedWithDay(lat, lon, now) == SeedVal(lat, lon) + DayOf(now)

TrendsSeed(lat, lon, now) == SeedVal(lat, lon)

calculate_sustainability_trends(g, now, lat, lon) ==
    LET g0 == Seed(g, TrendsSeed(lat, lon, now))
        d1 == Uniform(g0, -150, -50)
        d2 == Uniform(d1.rng, -100, 50)
        d3 == Random(d2.rng)
        d4 == Uniform(d3.rng, 700, 1000)
        d5 == Uniform(d4.rng, -150, 150)
        d6 == Random(d5.rng)
        d7 == Uniform(d6.rng, 5, 25)
        d8 == Uniform(d7.rng, 3, 15)
        d9 == Uniform(d8.rng, 300, 1500)
        d10 == Random(d9.rng)
        d11 == Uniform(d10.rng, 50, 150)
        d12 == Random(d11.rng)
    IN  [val |-> [groundwater_level |->
                      [current |-> Round1(d1.v),
                       change_percent |-> Round1(d2.v),
                       trend |-> IF d3.u > 500 THEN "declining" ELSE "stable"],
                  crop_yield_index |->
                      [current |-> Round1(d4.v),
                       change_percent |-> Round1(d5.v),
                       trend |-> IF d6.u > 400 THEN "improving" ELSE "declining"],
                  temperature_anomaly |->
                      [current |-> Round2(d7.v),
                       change_5yr |-> Round2(d8.v),
                       trend |-> "rising"],
                  air_quality_index |->
                      [current |-> Round0(d9.v),
                       category |-> IF d10.u > 500 THEN "moderate" ELSE "good"],
                  carbon_footprint |->
                      [regional_avg |-> Round1(d11.v),
                       national_avg |-> 850,
                       trend |-> IF d12.u > 600 THEN "decreasing" ELSE "stable"]],
         rng |-> d12.rng]

(***************************************************************************)
(* generate_historical_data, generate_forecast_data                        *)
(***************************************************************************)
\* weather["date"] = date.isoformat()
WithDate(weather, date) == weather @@ ("date" :> date)

\* list(reversed(data))
NotReversed(data) == data

Reversed(data) == [k \in 1 .. Len(data) |-> data[Len(data) + 1 - k]]

RECURSIVE HistoricalLoop(_, _, _, _, _, _, _)
HistoricalLoop(g, base_date, lat, lon, i, days, data) ==
    IF i > days THEN [val |-> data, rng |-> g]
    ELSE LET date == MinusDays(base_date, i)
             w == generate_mock_weather(g, base_date, lat, lon, date)
         IN  HistoricalLoop(w.rng, base_date, lat, lon, i + 1, days,
                            Append(data, WithDate(w.val, date)))

generate_historical_data(g, now, lat, lon, days) ==
    LET r == HistoricalLoop(g, now, lat, lon, 1, days, <<>>)
    IN  [val |-> Reversed(r.val), rng |-> r.rng]

\* weather["confidence"] = round(max(50, 95 - (i * 4)), 1)
ConfidenceNoFloor(i) == 100 * (95 - i * 4)

Confidence(i) == 100 * Max(50, 95 - i * 4)

RECURSIVE ForecastLoop(_, _, _, _, _, _, _)
ForecastLoop(g, base_date, lat, lon, i, days, data) ==
    IF i > days THEN [val |-> data, rng |-> g]
    ELSE LET date == PlusDays(base_date, i)
             w == generate_mock_weather(g, base_date, lat, lon, date)
         IN  ForecastLoop(w.rng, base_date, lat, lon, i + 1, days,
                          Append(data, WithDate(w.val, date)
                                         @@ ("confidence" :> Confidence(i))))

generate_forecast_data(g, now, lat, lon, days) ==
    ForecastLoop(g, now, lat, lon, 1, days, <<>>)

(***************************************************************************)
(* calculate_risk_scores.  A risk is kept as the exact fraction num/den    *)
(* of a percent until it is rounded.                                       *)
(***************************************************************************)
RECURSIVE SumField(_, _)
SumField(historical, field) ==
    IF historical = <<>> THEN 0
    ELSE Head(historical)[field] + SumField(Tail(historical), field)

\* Python's a / b: raises ZeroDivisionError when b = 0.
PyDiv(a, b) ==
    IF b = 0 THEN [exc |-> "ZeroDivisionError", num |-> 0, den |-> 1]
    ELSE [exc |-> "", num |-> a, den |-> b]

\* sum([h[field] for h in historical]) / len(historical) if historical
\* else current[field]
HistoricalAverageUnguarded(current, historical, field) ==
    PyDiv(SumField(historical, field), Len(historical))

HistoricalAverage(current, historical, field) ==
    IF historical # <<>>
    THEN PyDiv(SumField(historical, field), Len(historical))
    ELSE [exc |-> "", num |-> current[field], den |-> 1]

\* drought_risk = sum(drought_factors) / len(drought_factors) * 100 with the
\* factors max(0, (30 - rainfall) / 30), max(0, (50 - humidity) / 50),
\* max(0, (temperature - 25) / 25); over the common denominator 15000 of the
\* factors (values in hundredths) this is DroughtNum / 450.
DroughtNum(current) ==
    5 * Max(0, 3000 - current.rainfall)
    + 3 * Max(0, 5000 - current.humidity)
    + 6 * Max(0, current.temperature - 2500)

DroughtDen == 450

\* flood_risk: factors min(1, rainfall / 100), min(1, humidity / 100),
\* min(1, cloud_cover / 100); FloodNum / 300.
FloodNum(current) ==
    Min(10000, current.rainfall)
    + Min(10000, current.humidity)
    + Min(10000, current.cloud_cover)

FloodDen == 300

\* heat_risk: factors max(0, (temperature - 20) / 30), max(0, humidity / 100),
\* max(0, uv_index / 11); HeatNum / 9900.
HeatNum(current) ==
    110 * Max(0, current.temperature - 2000)
    + 33 * Max(0, current.humidity)
    + 300 * Max(0, current.uv_index)

HeatDen == 9900

\* round(min(100, max(0, risk)), 1), in hundredths of a percent
ClampedRisk(num, den) ==
    10 * RoundHalfEven(10 * Min(100 * den, Max(0, num)), den)

\* round((drought_risk + flood_risk + heat_risk) / 3, 1): the three risks as
\* computed, before the clamp that the three category entries get.
OverallRisk(current) ==
    10 * RoundHalfEven(10 * (22 * DroughtNum(current) + 33 * FloodNum(current)
                             + HeatNum(current)), 29700)

\* round(avg, 1) of a fraction of hundredths
RoundAvg(avg) == 10 * RoundHalfEven(avg.num, 10 * avg.den)

calculate_risk_scores(weather_data, historical) ==
    LET current == weather_data
        avg_temp == HistoricalAverage(current, historical, "temperature")
        avg_rainfall == HistoricalAverage(current, historical, "rainfall")
    IN  IF avg_temp.exc # "" THEN [exc |-> avg_temp.exc]
        ELSE IF avg_rainfall.exc # "" THEN [exc |-> avg_rainfall.exc]
        ELSE
        [exc |-> "",
         drought_risk |-> ClampedRisk(DroughtNum(current), DroughtDen),
         flood_risk |-> ClampedRisk(FloodNum(current), FloodDen),
         heat_stress |-> ClampedRisk(HeatNum(current), HeatDen),
         overall_risk |-> OverallRisk(current),
         confidence |-> 8550,
         assumptions |->
             <<[text |-> "Based on current temperature",
                value |-> current.temperature],
               [text |-> "Historical average temperature",
                value |-> RoundAvg(avg_temp)],
               [text |-> "Current rainfall",
                value |-> current.rainfall],
               [text |-> "Historical average rainfall",
                value |-> RoundAvg(avg_rainfall)]>>,
         historical_patterns |->
             [temp_trend |->
                  IF current.temperature * avg_temp.den > avg_temp.num
                  THEN "rising" ELSE "falling",
              rainfall_trend |->
                  IF current.rainfall * avg_rainfall.den > avg_rainfall.num
                  THEN "above_normal" ELSE "below_normal"]]

(***************************************************************************)
(* simulate_scenario: the perturbed observation                            *)
(***************************************************************************)
\* max(0, base_weather["rainfall"] * (1 + scenario.rainfall_change / 100));
\* the quotient is exact for the changes of RainfallChanges.
ModifiedRainfallUnfloored(rainfall, rainfall_change) ==
    (rainfall * (100 + rainfall_change)) \div 100

ModifiedRainfall(rainfall, rainfall_change) ==
    Max(0, (rainfall * (100 + rainfall_change)) \div 100)

\* min(100, max(0, base_weather["humidity"] * (1 + rainfall_change / 200)))
ModifiedHumidity(humidity, rainfall_change) ==
    Min(10000, Max(0, (humidity * (200 + rainfall_change)) \div 200))

\* base_weather["temperature"] + scenario.temperature_change
ModifiedTemperatureInverted(temperature, temperature_change) ==
    temperature - 10 * temperature_change

ModifiedTemperature(temperature, temperature_change) ==
    temperature + 10 * temperature_change

modified_weather(base_weather, rainfall_change, temperature_change) ==
    [base_weather EXCEPT
        !.rainfall = ModifiedRainfall(base_weather.rainfall, rainfall_change),
        !.temperature = ModifiedTemperature(base_weather.temperature,
                                            temperature_change),
        !.humidity = ModifiedHumidity(base_weather.humidity, rainfall_change)]

(***************************************************************************)
(* Inputs                                                                  *)
(***************************************************************************)
\* latitudes 0.0, 13.1 and -1000.0; longitudes 0.0 and 80.271
Lats == {0, 131, -10000}

Lons == {0, 80271}

\* 30 January 23:40 and 23:50, 31 January 23:40, 30 March 00:00
Dates == {ClockStart, ClockStart + 1, ClockStart + TicksPerDay,
          88 * TicksPerDay}

DaysArgs == 0 .. MaxDays

\* percent
RainfallChanges == {-500, -100, -60, 0, 10000}

\* tenths of a degree: -5.0, 0.0, +5.0, +10.0, +1000.0
TemperatureChanges == {-50, 0, 50, 100, 10000}

Advances == 0 .. MaxAdvance

\* Arguments of direct calls of calculate_risk_scores: observations and
\* historical lists (the empty one included) as the generators produce them.
ScoreObservations ==
    {generate_mock_weather(0, ClockStart, lat, lon, d).val :
        lat \in Lats, lon \in Lons, d \in Dates}

ScoreHistories ==
    {generate_historical_data(0, ClockStart, lat, lon, days).val :
        lat \in Lats, lon \in Lons, days \in {0, 2}}

\* the smaller inputs of the specification that observes repeated calls
DetLats == {0, 131}

DetDates == {ClockStart, 88 * TicksPerDay, None}

DetDays == {0, 2}

(***************************************************************************)
(* State.  rng is the generator of the random module, clock the wall       *)
(* clock, ret the call being answered (its arguments, the clock values it  *)
(* read, the generator state it started from, its result), or NoCall when  *)
(* the server is idle.  memo keeps the first call of a seeded synthesizer  *)
(* that an observer saw, to compare later calls with it.                   *)
(***************************************************************************)
NoCall == [op |-> "none"]

Unobserved == {[op |-> "unobserved"]}

Tracked == {"generate_mock_weather", "calculate_sustainability_trends"}

Latch(m, r) == IF m = {} /\ r.op \in Tracked THEN {r} ELSE m

Init ==
    /\ rng \in RngStates
    /\ clock = ClockStart
    /\ ret = NoCall
    /\ memo = Unobserved
    /\ users = <<>>
    /\ calls = EmptyBag

InitDet ==
    /\ rng \in RngStates
    /\ clock = ClockStart
    /\ ret = NoCall
    /\ memo = {}
    /\ users = <<>>
    /\ calls = EmptyBag

\* the wall clock advances
Tick ==
    /\ clock < MaxClock
    /\ clock' = clock + 1
    /\ UNCHANGED <<rng, ret, memo, users, calls>>

\* the result is handed to the caller; the server is idle again
Respond ==
    /\ ret # NoCall
    /\ ret' = NoCall
    /\ UNCHANGED <<rng, clock, memo, users, calls>>

GenerateOtp ==
    LET r == generate_otp(rng)
    IN  /\ ret = NoCall
        /\ rng' = r.rng
        /\ ret' = [op |-> "generate_otp", before |-> rng, val |-> r.v]
        /\ UNCHANGED <<clock, memo, users, calls>>

GenerateMockWeather(lat, lon, base_date) ==
    LET r == generate_mock_weather(rng, clock, lat, lon, base_date)
    IN  /\ ret = NoCall
        /\ rng' = r.rng
        /\ ret' = [op |-> "generate_mock_weather",
                   args |-> [lat |-> lat, lon |-> lon,
                             date |-> IF base_date = None THEN clock
                                      ELSE base_date],
                   now |-> clock,
                   before |-> rng,
                   val |-> r.val]
        /\ memo' = Latch(memo, ret')
        /\ UNCHANGED <<clock, users, calls>>

CalculateSustainabilityTrends(lat, lon) ==
    LET r == calculate_sustainability_trends(rng, clock, lat, lon)
    IN  /\ ret = NoCall
        /\ rng' = r.rng
        /\ ret' = [op |-> "calculate_sustainability_trends",
                   args |-> [lat |-> lat, lon |-> lon],
                   now |-> clock,
                   before |-> rng,
                   val |-> r.val]
        /\ memo' = Latch(memo, ret')
        /\ UNCHANGED <<clock, users, calls>>

GenerateHistoricalData(lat, lon, days) ==
    LET r == generate_historical_data(rng, clock, lat, lon, days)
    IN  /\ ret = NoCall
        /\ rng' = r.rng
        /\ ret' = [op |-> "generate_historical_data",
                   args |-> [lat |-> lat, lon |-> lon, days |-> days],
                   now |-> clock,
                   val |-> r.val]
        /\ UNCHANGED <<clock, memo, users, calls>>

GenerateForecastData(lat, lon, days) ==
    LET r == generate_forecast_data(rng, clock, lat, lon, days)
    IN  /\ ret = NoCall
        /\ rng' = r.rng
        /\ ret' = [op |-> "generate_forecast_data",
                   args |-> [lat |-> lat, lon |-> lon, days |-> days],
                   now |-> clock,
                   val |-> r.val]
        /\ UNCHANGED <<clock, memo, users, calls>>

CalculateRiskScores(weather_data, historical) ==
    /\ ret = NoCall
    /\ ret' = [op |-> "calculate_risk_scores",
               args |-> [weather_data |-> weather_data,
                         historical |-> historical],
               val |-> calculate_risk_scores(weather_data, historical)]
    /\ UNCHANGED <<rng, clock, memo, users, calls>>

\* POST /climate/data.  The three generators read the wall clock one after
\* the other; it may advance between the reads.
GetClimateData(lat, lon, adv1, adv2) ==
    LET now1 == clock
        now2 == now1 + adv1
        now3 == now2 + adv2
        current == generate_mock_weather(rng, now1, lat, lon, None)
        historical == generate_historical_data(current.rng, now2, lat, lon, 10)
        forecast == generate_forecast_data(historical.rng, now3, lat, lon, 10)
        risk == calculate_risk_scores(current.val, historical.val)
        sustainability ==
            calculate_sustainability_trends(forecast.rng, now3, lat, lon)
    IN  /\ ret = NoCall
        /\ now3 <= MaxClock
        /\ clock' = now3
        /\ rng' = sustainability.rng
        /\ ret' = [op |-> "get_climate_data",
                   args |-> [lat |-> lat, lon |-> lon],
                   now |-> <<now1, now2, now3>>,
                   val |-> [location |-> [lat |-> lat, lon |-> lon],
                            current |-> current.val,
                            historical |-> historical.val,
                            forecast |-> forecast.val,
                            risk_assessment |-> risk,
                            sustainability_trends |-> sustainability.val]]
        /\ UNCHANGED <<memo, users, calls>>

\* modified_weather = base_weather.copy(): the item assignments of lines
\* 427-429 go to the copy and base_weather keeps its items.  Without the
\* copy both names would denote the modified dictionary.
BaseWeatherAliased(base_weather, modified) == modified

BaseWeatherKept(base_weather, modified) == base_weather

\* round(new_risk[category] - calculate_risk_scores(..)[category], 1): the
\* difference of two values that are already rounded to one decimal
RiskDeltaReversed(new_risk, base_risk, category) ==
    base_risk[category] - new_risk[category]

RiskDelta(new_risk, base_risk, category) ==
    new_risk[category] - base_risk[category]

\* POST /climate/scenario.  The baseline assessment is computed four times
\* from the same arguments (lines 438, 443, 444, 445).
SimulateScenario(lat, lon, rainfall_change, temperature_change, adv1) ==
    LET now1 == clock
        now2 == now1 + adv1
        base == generate_mock_weather(rng, now1, lat, lon, None)
        modified == modified_weather(base.val, rainfall_change,
                                     temperature_change)
        base_weather == BaseWeatherKept(base.val, modified)
        hist == generate_historical_data(base.rng, now2, lat, lon, 10)
        historical == hist.val
        new_risk == calculate_risk_scores(modified, historical)
    IN  /\ ret = NoCall
        /\ now2 <= MaxClock
        /\ clock' = now2
        /\ rng' = hist.rng
        /\ ret' = [op |-> "simulate_scenario",
                   args |-> [lat |-> lat, lon |-> lon,
                             rainfall_change |-> rainfall_change,
                             temperature_change |-> temperature_change],
                   now |-> <<now1, now2>>,
                   val |-> [original_weather |-> base_weather,
                            modified_weather |-> modified,
                            original_risk |->
                                calculate_risk_scores(base_weather, historical),
                            modified_risk |-> new_risk,
                            scenario_impact |->
                                [rainfall_change_applied |-> rainfall_change,
                                 temperature_change_applied |-> temperature_change,
                                 drought_risk_change |->
                                     RiskDelta(new_risk,
                                               calculate_risk_scores(
                                                   base_weather, historical),
                                               "drought_risk"),
                                 flood_risk_change |->
                                     RiskDelta(new_risk,
                                               calculate_risk_scores(
                                                   base_weather, historical),
                                               "flood_risk"),
                                 heat_stress_change |->
                                     RiskDelta(new_risk,
                                               calculate_risk_scores(
                                                   base_weather, historical),
                                               "heat_stress")]]]
        /\ UNCHANGED <<memo, users, calls>>

Next ==
    \/ Tick
    \/ Respond
    \/ GenerateOtp
    \/ \E lat \in Lats, lon \in Lons, base_date \in Dates \cup {None} :
           GenerateMockWeather(lat, lon, base_date)
    \/ \E lat \in Lats, lon \in Lons : CalculateSustainabilityTrends(lat, lon)
    \/ \E lat \in Lats, lon \in Lons, days \in DaysArgs :
           GenerateHistoricalData(lat, lon, days)
    \/ \E lat \in Lats, lon \in Lons, days \in DaysArgs :
           GenerateForecastData(lat, lon, days)
    \/ \E weather_data \in ScoreObservations, historical \in ScoreHistories :
           CalculateRiskScores(weather_data, historical)
    \/ \E lat \in Lats, lon \in Lons, adv1 \in Advances, adv2 \in Advances :
           GetClimateData(lat, lon, adv1, adv2)
    \/ \E lat \in Lats, lon \in Lons, rainfall_change \in RainfallChanges,
          temperature_change \in TemperatureChanges, adv1 \in Advances :
           SimulateScenario(lat, lon, rainfall_change, temperature_change, adv1)

Spec == Init /\ [][Next]_vars

\* Repeated calls of the seeded synthesizers with an observer, between
\* operations that draw from or re-seed the generator.
NextDet ==
    \/ Tick
    \/ Respond
    \/ GenerateOtp
    \/ \E lat \in DetLats, lon \in Lons, base_date \in DetDates :
           GenerateMockWeather(lat, lon, base_date)
    \/ \E lat \in DetLats, lon \in Lons :
           CalculateSustainabilityTrends(lat, lon)
    \/ \E lat \in DetLats, lon \in Lons, days \in DetDays :
           GenerateHistoricalData(lat, lon, days)

SpecDet == InitDet /\ [][NextDet]_vars

(***************************************************************************)
(* Accounts: the users collection, JWT, one-time passwords.  A user        *)
(* document keeps id, email, phone, password, is_verified, otp and         *)
(* otp_expires; name, preferred_language and created_at are only stored    *)
(* or echoed and are left out.  str(uuid.uuid4()) is modelled by the      *)
(* position of the document, which is fresh as documents are never         *)
(* deleted.  find_one and update_one take the first matching document in   *)
(* insertion order.                                                        *)
(***************************************************************************)
\* the stored users and the suspended handlers together
MaxLoad == 3

\* email = None, phone = None
Null == "None"

Emails == {"a@example.com", "b@example.com"}

Phones == {"+911"}

Passwords == {"pw1", "pw2"}

\* the password of every registration
RegisteredPasswords == {"pw1"}

\* the generator states the account service starts in
AuthRngStates == {0, 1}

\* an OTP that generate_otp never returns
WrongOtp == 0

\* timedelta(minutes = m)
Minutes(m) == (m * TicksPerDay) \div 1440

\* bcrypt: the hash is salted and checkpw recovers the match
hash_password(password) == [bcrypt |-> password]

verify_password(password, hashed) == hashed.bcrypt = password

\* create_token: PyJWT signs sub, exp and iat with JWT_SECRET
create_token(user_id, now) ==
    [sub |-> user_id, exp |-> PlusDays(now, 7), iat |-> now]

\* a bearer string that is not a token signed with JWT_SECRET
InvalidToken == [sub |-> None, exp |-> None, iat |-> None]

\* find_one: the index of the first of the matching documents, 0 if there
\* is none; matching is the set of their indices
FindOne(matching) ==
    IF matching = {} THEN 0
    ELSE CHOOSE k \in matching : \A j \in matching : k <= j

\* {"$or": [{"email": user.email}, {"phone": user.phone}]}: a condition on
\* None is satisfied by a document whose field is null
RegisterQuery(docs, args) ==
    {k \in 1 .. Len(docs) :
         docs[k].email = args.email \/ docs[k].phone = args.phone}

\* verify_otp, login: query["email"] = data.email, elif query["phone"]
IdentityQuery(docs, args) ==
    {k \in 1 .. Len(docs) :
         IF args.email # Null THEN docs[k].email = args.email
         ELSE docs[k].phone = args.phone}

\* {"id": user_id}
IdQuery(docs, user_id) == {k \in 1 .. Len(docs) : docs[k].id = user_id}

\* jwt.decode raises ExpiredSignatureError once exp <= now
get_current_user(token, now, docs) ==
    IF token = InvalidToken
    THEN [status |-> 401, detail |-> "Invalid token"]
    ELSE IF token.exp <= now
    THEN [status |-> 401, detail |-> "Token expired"]
    ELSE LET k == FindOne(IdQuery(docs, token.sub))
         IN  IF k = 0 THEN [status |-> 401, detail |-> "User not found"]
             ELSE [status |-> 200, detail |-> "", user |-> docs[k]]

\* UserResponse(...)
UserResponse(doc, is_verified) ==
    [id |-> doc.id, email |-> doc.email, phone |-> doc.phone,
     is_verified |-> is_verified]

\* raise HTTPException(status_code, detail)
HTTPException(op, args, status_code, detail) ==
    [op |-> op, args |-> args, status |-> status_code, detail |-> detail]

\* the stored users plus the suspended handlers: a suspended registration
\* may become a stored user
Load == Len(users) + BagCardinality(calls)

\* POST /auth/register up to the return of find_one (lines 276-281)
RegisterFind(email, phone, password) ==
    LET args == [email |-> email, phone |-> phone, password |-> password]
    IN  /\ ret = NoCall
        /\ IF email = Null /\ phone = Null
           THEN /\ ret' = HTTPException("register", args, 400,
                                        "Email or phone required")
                /\ UNCHANGED calls
           ELSE /\ Load < MaxLoad
                /\ calls' = calls (+) SetToBag({
                       [op |-> "register", args |-> args,
                        existing |-> FindOne(RegisterQuery(users, args))]})
                /\ UNCHANGED ret
        /\ UNCHANGED <<rng, clock, memo, users>>

\* POST /auth/register from the return of find_one on (lines 282-309)
RegisterInsert(c) ==
    /\ ret = NoCall
    /\ c \in BagToSet(calls)
    /\ c.op = "register"
    /\ calls' = calls (-) SetToBag({c})
    /\ IF c.existing # 0
       THEN /\ ret' = HTTPException("register", c.args, 400,
                                    "User already exists")
            /\ UNCHANGED <<rng, users>>
       ELSE LET otp == generate_otp(rng)
                user_doc == [id |-> Len(users) + 1,
                             email |-> c.args.email,
                             phone |-> c.args.phone,
                             password |->
                                 hash_password(c.args.password),
                             is_verified |-> FALSE,
                             otp |-> otp.v,
                             otp_expires |-> clock + Minutes(10)]
            IN  /\ rng' = otp.rng
                /\ users' = Append(users, user_doc)
                /\ ret' = [op |-> "register", args |-> c.args,
                           status |-> 200, detail |-> "",
                           val |-> [demo_otp |-> otp.v,
                                    user_id |-> user_doc.id]]
    /\ UNCHANGED <<clock, memo>>

\* POST /auth/verify-otp up to the return of find_one (lines 314-322)
VerifyFind(email, phone, otp) ==
    LET args == [email |-> email, phone |-> phone, otp |-> otp]
        k == FindOne(IdentityQuery(users, args))
    IN  /\ ret = NoCall
        /\ IF email = Null /\ phone = Null
           THEN /\ ret' = HTTPException("verify_otp", args, 400,
                                        "Email or phone required")
                /\ UNCHANGED calls
           ELSE /\ Load < MaxLoad
                /\ calls' = calls (+) SetToBag({
                       [op |-> "verify_otp", args |-> args,
                        user |-> IF k = 0 THEN <<>> ELSE <<users[k]>>]})
                /\ UNCHANGED ret
        /\ UNCHANGED <<rng, clock, memo, users>>

\* {"$set": {"is_verified": True}, "$unset": {"otp": "", "otp_expires": ""}}
VerifiedKeepsOtp(doc) == [doc EXCEPT !.is_verified = TRUE]

Verified(doc) ==
    [doc EXCEPT !.is_verified = TRUE, !.otp = None, !.otp_expires = None]

\* update_one(query, ...): the first of the matching documents is updated
UpdateOne(docs, matching) ==
    LET k == FindOne(matching)
    IN  IF k = 0 THEN docs ELSE [docs EXCEPT ![k] = Verified(docs[k])]

\* POST /auth/verify-otp from the return of find_one on (lines 323-349)
VerifyUpdate(c) ==
    /\ ret = NoCall
    /\ c \in BagToSet(calls)
    /\ c.op = "verify_otp"
    /\ calls' = calls (-) SetToBag({c})
    /\ LET args == c.args
       IN  IF c.user = <<>>
           THEN /\ ret' = HTTPException("verify_otp", args, 404,
                                        "User not found")
                /\ UNCHANGED users
           ELSE LET user == c.user[1]
                IN  IF user.otp # args.otp
                    THEN /\ ret' = HTTPException("verify_otp", args, 400,
                                                 "Invalid OTP")
                         /\ UNCHANGED users
                    ELSE IF clock > user.otp_expires
                    THEN /\ ret' = HTTPException("verify_otp", args, 400,
                                                 "OTP expired")
                         /\ UNCHANGED users
                    ELSE /\ users' = UpdateOne(users,
                                                IdentityQuery(users, args))
                         /\ ret' = [op |-> "verify_otp", args |-> args,
                                    status |-> 200, detail |-> "",
                                    val |-> [access_token |->
                                                 create_token(user.id, clock),
                                             user |->
                                                 UserResponse(user, TRUE)]]
    /\ UNCHANGED <<rng, clock, memo>>

\* POST /auth/login
Login(email, phone, password) ==
    LET args == [email |-> email, phone |-> phone, password |-> password]
        k == FindOne(IdentityQuery(users, args))
    IN  /\ ret = NoCall
        /\ calls = EmptyBag
        /\ ret' = IF email = Null /\ phone = Null
                  THEN HTTPException("login", args, 400,
                                     "Email or phone required")
                  ELSE IF k = 0
                  THEN HTTPException("login", args, 401,
                                     "Invalid credentials")
                  ELSE IF ~verify_password(password, users[k].password)
                  THEN HTTPException("login", args, 401,
                                     "Invalid credentials")
                  ELSE [op |-> "login", args |-> args,
                        status |-> 200, detail |-> "",
                        val |-> [access_token |->
                                     create_token(users[k].id, clock),
                                 user |-> UserResponse(
                                              users[k],
                                              users[k].is_verified)]]
        /\ UNCHANGED <<rng, clock, memo, users, calls>>

\* the bearer strings a client presents: one that is not a token, and the
\* token login issues now for a stored user
Tokens ==
    {InvalidToken}
    \cup {create_token(users[k].id, clock) : k \in 1 .. Len(users)}

\* GET /auth/me
GetMe(token) ==
    LET current_user == get_current_user(token, clock, users)
    IN  /\ ret = NoCall
        /\ calls = EmptyBag
        /\ ret' = IF current_user.status # 200
                  THEN HTTPException("get_me", [token |-> token],
                                     current_user.status, current_user.detail)
                  ELSE [op |-> "get_me", args |-> [token |-> token],
                        status |-> 200, detail |-> "",
                        val |-> UserResponse(current_user.user,
                                             current_user.user.is_verified)]
        /\ UNCHANGED <<rng, clock, memo, users, calls>>

\* the fields of RecommendationRequest (lines 100-103); a request body's
\* other keys are ignored by the model class
RecommendationRequestFields == {"lat", "lon", "risk_data"}

\* the answer of the except branch (lines 547-573)
FallbackRecommendations ==
    [water_management |-> <<"Implement drip irrigation systems",
                            "Install rainwater harvesting",
                            "Monitor groundwater levels weekly">>,
     crop_suggestions |-> <<"Consider drought-resistant varieties",
                            "Plant cover crops to retain moisture",
                            "Adjust planting schedule based on forecasts">>,
     disaster_prep |-> <<"Create emergency water storage",
                         "Develop evacuation plans",
                         "Install early warning systems">>,
     carbon_tips |-> <<"Use renewable energy sources",
                       "Practice no-till farming",
                       "Plant trees for carbon sequestration">>]

\* what chat.send_message can do: return text or raise
OracleOutcomes == {"ok", "error"}

\* The body of get_recommendations.  Everything is inside try, and except
\* Exception answers with the fallback.  request.language (line 520) is
\* evaluated before the oracle is called and raises AttributeError, as
\* RecommendationRequest has no field language.
get_recommendations(now, lat, lon, oracle) ==
    LET fallback == [recommendations |-> FallbackRecommendations,
                     generated_at |-> now,
                     location |-> [lat |-> lat, lon |-> lon],
                     is_fallback |-> TRUE]
    IN  IF "language" \notin RecommendationRequestFields THEN fallback
        ELSE IF oracle = "error" THEN fallback
        ELSE [recommendations |-> "response",
              generated_at |-> now,
              location |-> [lat |-> lat, lon |-> lon]]

\* POST /recommendations
GetRecommendations(token, lat, lon, oracle) ==
    LET current_user == get_current_user(token, clock, users)
        args == [token |-> token, lat |-> lat, lon |-> lon,
                 oracle |-> oracle]
    IN  /\ ret = NoCall
        /\ calls = EmptyBag
        /\ ret' = IF current_user.status # 200
                  THEN HTTPException("get_recommendations", args,
                                     current_user.status, current_user.detail)
                  ELSE [op |-> "get_recommendations", args |-> args,
                        status |-> 200, detail |-> "",
                        val |-> get_recommendations(clock, lat, lon, oracle)]
        /\ UNCHANGED <<rng, clock, memo, users, calls>>

\* the (email, phone) pairs of the requests: an email alone, a phone alone,
\* or neither
Identities ==
    {[email |-> e, phone |-> Null] : e \in Emails \cup {Null}}
    \cup {[email |-> Null, phone |-> p] : p \in Phones}

\* the generator state before the last draw: Random maps g to 5 g + 3, and
\* 5 * 5 = 1 modulo RngMod
RngBefore(g) == (5 * (g + RngMod - 3)) % RngMod

\* the one-time passwords of the last n registrations
RECURSIVE IssuedOtps(_, _)
IssuedOtps(g, n) ==
    IF n = 0 THEN {}
    ELSE {generate_otp(RngBefore(g)).v} \cup IssuedOtps(RngBefore(g), n - 1)

\* the one-time passwords a client can send: those that registrations have
\* returned so far, and a wrong one
Otps == IssuedOtps(rng, Len(users)) \cup {WrongOtp}

\* The account service: concurrent requests, each await a step.  A request
\* that only reads is served while no handler is suspended: a suspended
\* handler has changed nothing yet, so every answer such a request can get
\* is among these.
NextAuth ==
    \/ Tick
    \/ Respond
    \/ \E id \in Identities, password \in RegisteredPasswords :
           RegisterFind(id.email, id.phone, password)
    \/ \E c \in BagToSet(calls) : RegisterInsert(c)
    \/ \E id \in Identities, otp \in Otps :
           VerifyFind(id.email, id.phone, otp)
    \/ \E c \in BagToSet(calls) : VerifyUpdate(c)
    \/ \E id \in Identities, password \in Passwords :
           Login(id.email, id.phone, password)
    \/ \E token \in Tokens : GetMe(token)
    \/ \E token \in Tokens, lat \in {131}, lon \in {80271},
          oracle \in OracleOutcomes :
           GetRecommendations(token, lat, lon, oracle)

InitAuth ==
    /\ rng \in AuthRngStates
    /\ clock = ClockStart
    /\ ret = NoCall
    /\ memo = Unobserved
    /\ users = <<>>
    /\ calls = EmptyBag

SpecAuth == InitAuth /\ [][NextAuth]_vars

(***************************************************************************)
(* What a call returned                                                    *)
(***************************************************************************)
SeqRange(q) == {q[k] : k \in 1 .. Len(q)}

ObservationFields ==
    {"temperature", "feels_like", "humidity", "pressure", "wind_speed",
     "wind_direction", "rainfall", "cloud_cover", "uv_index", "visibility"}

\* a time-series point without its tags
Untagged(point) == [f \in ObservationFields |-> point[f]]

\* the observations of generate_mock_weather in the result being returned
ReturnedObservations ==
    IF ret.op = "generate_mock_weather" THEN {ret.val}
    ELSE IF ret.op \in {"generate_historical_data", "generate_forecast_data"}
    THEN {Untagged(pt) : pt \in SeqRange(ret.val)}
    ELSE IF ret.op = "get_climate_data"
    THEN {ret.val.current}
         \cup {Untagged(pt) : pt \in SeqRange(ret.val.historical)}
         \cup {Untagged(pt) : pt \in SeqRange(ret.val.forecast)}
    ELSE IF ret.op = "simulate_scenario" THEN {ret.val.original_weather}
    ELSE {}

\* the risk assessments in the result being returned
ReturnedRisks ==
    IF ret.op = "calculate_risk_scores" THEN {ret.val}
    ELSE IF ret.op = "get_climate_data" THEN {ret.val.risk_assessment}
    ELSE IF ret.op = "simulate_scenario"
    THEN {ret.val.original_risk, ret.val.modified_risk}
    ELSE {}

(***************************************************************************)
(* C1.  generate_mock_weather is deterministic: a call with the (lat, lon, *)
(* date) of an earlier call returns the observation the earlier call       *)
(* returned, whatever drew from or re-seeded the generator in between.     *)
(***************************************************************************)
C1_WeatherDeterministic ==
    \A m \in memo :
        (/\ ret.op = "generate_mock_weather"
         /\ m.op = "generate_mock_weather"
         /\ m.args = ret.args)
        => ret.val = m.val

\* a second call with the arguments of the first, started from another
\* generator state
C1_Witness ==
    \E m \in memo :
        /\ ret.op = "generate_mock_weather"
        /\ m.op = "generate_mock_weather"
        /\ m.args = ret.args
        /\ m.before # ret.before

(***************************************************************************)
(* C2.  calculate_sustainability_trends depends on the coordinate only: a  *)
(* call with the (lat, lon) of an earlier call returns the same bundle, on *)
(* any calendar day and after any other drawing operations.                *)
(***************************************************************************)
C2_TrendsStable ==
    \A m \in memo :
        (/\ ret.op = "calculate_sustainability_trends"
         /\ m.op = "calculate_sustainability_trends"
         /\ m.args = ret.args)
        => ret.val = m.val

\* a second call for the coordinate on another calendar day, from another
\* generator state
C2_Witness ==
    \E m \in memo :
        /\ ret.op = "calculate_sustainability_trends"
        /\ m.op = "calculate_sustainability_trends"
        /\ m.args = ret.args
        /\ DayOf(m.now) # DayOf(ret.now)
        /\ m.before # ret.before

(***************************************************************************)
(* C3.  Every observation of generate_mock_weather has humidity and        *)
(* cloud_cover in [0, 100] and rainfall >= 0.                              *)
(***************************************************************************)
C3_ObservationBounds ==
    \A o \in ReturnedObservations :
        /\ 0 <= o.humidity /\ o.humidity <= 10000
        /\ 0 <= o.cloud_cover /\ o.cloud_cover <= 10000
        /\ o.rainfall >= 0

\* an observation whose rainfall was floored at 0 next to a cloud cover at
\* the top of its range
C3_Witness ==
    /\ ret.op = "generate_mock_weather"
    /\ ret.val.rainfall = 0
    /\ ret.val.cloud_cover >= 9980

(***************************************************************************)
(* C4.  Every observation has an integral wind_direction in [0, 360): 360  *)
(* is never produced.                                                      *)
(***************************************************************************)
C4_WindDirectionBelow360 ==
    \A o \in ReturnedObservations :
        /\ o.wind_direction % 100 = 0
        /\ 0 <= o.wind_direction
        /\ o.wind_direction < 36000

(***************************************************************************)
(* C5.  Every risk assessment of calculate_risk_scores has drought_risk,   *)
(* flood_risk, heat_stress and overall_risk in [0, 100], for synthesized   *)
(* observations and for the baseline and perturbed observations of a       *)
(* scenario under any change.                                              *)
(***************************************************************************)
C5_RiskScoresBounded ==
    \A r \in ReturnedRisks :
        r.exc = "" =>
            /\ 0 <= r.drought_risk /\ r.drought_risk <= 10000
            /\ 0 <= r.flood_risk /\ r.flood_risk <= 10000
            /\ 0 <= r.heat_stress /\ r.heat_stress <= 10000
            /\ 0 <= r.overall_risk /\ r.overall_risk <= 10000

(***************************************************************************)
(* C6.  generate_historical_data(lat, lon, n) returns exactly n points,    *)
(* the k-th being the day offset n + 1 - k before the now it read: dates   *)
(* strictly ascending and all strictly before now.                         *)
(***************************************************************************)
C6_HistoricalOrder ==
    ret.op = "generate_historical_data" =>
        /\ Len(ret.val) = ret.args.days
        /\ \A k \in 1 .. Len(ret.val) :
               /\ ret.val[k].date = ret.now - (ret.args.days + 1 - k) * TicksPerDay
               /\ ret.val[k].date < ret.now
        /\ \A k \in 1 .. Len(ret.val) - 1 : ret.val[k].date < ret.val[k + 1].date

C6_Witness ==
    /\ ret.op = "generate_historical_data"
    /\ ret.args.days = 10
    /\ Len(ret.val) = 10
    /\ ret.val[1].date < ret.val[10].date

(***************************************************************************)
(* C7.  generate_forecast_data(lat, lon, n) returns n points in ascending  *)
(* date order, offset 1 first, with confidence max(50, 95 - 4 i) at offset *)
(* i: non-increasing, never below 50, 55 at offset 10.                     *)
(***************************************************************************)
C7_ForecastConfidence ==
    ret.op = "generate_forecast_data" =>
        /\ Len(ret.val) = ret.args.days
        /\ \A i \in 1 .. Len(ret.val) :
               /\ ret.val[i].date = ret.now + i * TicksPerDay
               /\ ret.val[i].confidence
                      = (IF 95 - 4 * i >= 50 THEN 100 * (95 - 4 * i) ELSE 5000)
               /\ ret.val[i].confidence >= 5000
               /\ (i = 10 => ret.val[i].confidence = 5500)
        /\ \A i \in 1 .. Len(ret.val) - 1 :
               /\ ret.val[i].confidence >= ret.val[i + 1].confidence
               /\ ret.val[i].date < ret.val[i + 1].date

\* a forecast long enough for the floor of 50 to apply
C7_Witness ==
    /\ ret.op = "generate_forecast_data"
    /\ ret.args.days >= 12
    /\ ret.val[10].confidence = 5500
    /\ ret.val[12].confidence = 5000

(***************************************************************************)
(* C8.  calculate_risk_scores(obs, []) does not raise; the historical      *)
(* averages echoed in the assumptions are obs's own temperature and        *)
(* rainfall, and the assessment is complete.                               *)
(***************************************************************************)
C8_EmptyHistoryFallback ==
    (ret.op = "calculate_risk_scores" /\ ret.args.historical = <<>>) =>
        /\ ret.val.exc = ""
        /\ DOMAIN ret.val = {"exc", "drought_risk", "flood_risk", "heat_stress",
                             "overall_risk", "confidence", "assumptions",
                             "historical_patterns"}
        /\ ret.val.assumptions[2].text = "Historical average temperature"
        /\ ret.val.assumptions[2].value = ret.args.weather_data.temperature
        /\ ret.val.assumptions[4].text = "Historical average rainfall"
        /\ ret.val.assumptions[4].value = ret.args.weather_data.rainfall

C8_Witness ==
    /\ ret.op = "calculate_risk_scores"
    /\ ret.args.historical = <<>>
    /\ ret.val.exc = ""
    /\ ret.args.weather_data.rainfall > 0

(***************************************************************************)
(* C9.  The perturbed rainfall of simulate_scenario is                     *)
(* max(0, baseline.rainfall * (1 + rainfall_change / 100)): never          *)
(* negative, exactly 0 for every rainfall_change <= -100; the perturbed    *)
(* humidity stays in [0, 100].                                             *)
(***************************************************************************)
C9_ScenarioRainfallFloor ==
    ret.op = "simulate_scenario" =>
        LET base == ret.val.original_weather
            mod == ret.val.modified_weather
            scaled == base.rainfall * (100 + ret.args.rainfall_change)
        IN  /\ mod.rainfall >= 0
            /\ 100 * mod.rainfall = (IF scaled > 0 THEN scaled ELSE 0)
            /\ (ret.args.rainfall_change <= -100 => mod.rainfall = 0)
            /\ 0 <= mod.humidity /\ mod.humidity <= 10000

\* rainfall_change = -500 on a baseline with rain
C9_Witness ==
    /\ ret.op = "simulate_scenario"
    /\ ret.args.rainfall_change = -500
    /\ ret.val.original_weather.rainfall > 0
    /\ ret.val.modified_weather.rainfall = 0

(***************************************************************************)
(* C10.  Heat stress is monotonic in temperature: with rainfall_change = 0 *)
(* a larger temperature_change on the same baseline never gives a smaller  *)
(* modified heat_stress, and heat_stress_change is never negative for      *)
(* temperature_change >= 0.                                                *)
(***************************************************************************)
C10_HeatStressMonotonic ==
    (ret.op = "simulate_scenario" /\ ret.args.rainfall_change = 0) =>
        /\ \A larger \in TemperatureChanges
                         \cup {ret.args.temperature_change + 50} :
               larger >= ret.args.temperature_change =>
                   calculate_risk_scores(
                       modified_weather(ret.val.original_weather, 0, larger),
                       <<>>).heat_stress
                   >= ret.val.modified_risk.heat_stress
        /\ ret.args.temperature_change >= 0 =>
               ret.val.scenario_impact.heat_stress_change >= 0

\* a warming scenario that raised the heat stress
C10_Witness ==
    /\ ret.op = "simulate_scenario"
    /\ ret.args.rainfall_change = 0
    /\ ret.args.temperature_change = 50
    /\ ret.val.scenario_impact.heat_stress_change > 0

(***************************************************************************)
(* The k-th draw of a stream: StreamAt(g0, k) is the generator before the  *)
(* k-th draw after seeding to g0.  ObservationByOrder(order, g0, lat) is   *)
(* the observation whose field order[k] is computed from the k-th draw.    *)
(***************************************************************************)
RECURSIVE StreamAt(_, _)
StreamAt(g0, k) == IF k = 1 THEN g0 ELSE Random(StreamAt(g0, k - 1)).rng

IndexOf(order, field) == CHOOSE k \in 1 .. Len(order) : order[k] = field

ObservationByOrder(order, g0, lat) ==
    LET draw(field, a, b) == Uniform(StreamAt(g0, IndexOf(order, field)), a, b).v
        base_temp == 250000 - Abs(lat) * 500 + draw("temperature", -50, 50)
    IN  [temperature |-> Round1(base_temp),
         feels_like |-> Round1(base_temp + draw("feels_like", -30, 30)),
         humidity |-> Round1(ClampPercent(500000 + draw("humidity", -200, 300))),
         pressure |-> Round1(10130000 + draw("pressure", -200, 200)),
         wind_speed |-> Round1(draw("wind_speed", 0, 250)),
         wind_direction |-> Round0(draw("wind_direction", 0, 3600)),
         rainfall |-> Round1(Max(0, draw("rainfall", -100, 500))),
         cloud_cover |-> Round1(draw("cloud_cover", 0, 1000)),
         uv_index |-> Round1(draw("uv_index", 10, 110)),
         visibility |-> Round1(draw("visibility", 50, 200))]

\* the order documented for the draws
ListedDrawOrder ==
    <<"temperature", "feels_like", "humidity", "pressure", "wind_speed",
      "wind_direction", "rainfall", "cloud_cover", "uv_index", "visibility">>

\* the order of the uniform() calls of generate_mock_weather
SourceDrawOrder ==
    <<"temperature", "humidity", "rainfall", "feels_like", "pressure",
      "wind_speed", "wind_direction", "cloud_cover", "uv_index", "visibility">>

ReturnedStreamStart ==
    Seed(ret.before, SeedVal(ret.args.lat, ret.args.lon) + DayOf(ret.args.date))

(***************************************************************************)
(* C14 as stated.  The k-th draw of the seeded stream feeds the k-th field *)
(* of the list temperature, feels-like, humidity, pressure, wind speed,    *)
(* wind direction, rainfall, cloud cover, UV index, visibility: humidity   *)
(* comes from the 3rd draw and rainfall from the 7th.                      *)
(***************************************************************************)
C14_ListedDrawOrder ==
    ret.op = "generate_mock_weather" =>
        ret.val = ObservationByOrder(ListedDrawOrder, ReturnedStreamStart,
                                     ret.args.lat)

(***************************************************************************)
(* C14 amended.  The seeded stream is consumed in the fixed order          *)
(* temperature, humidity, rainfall, feels-like, pressure, wind speed, wind *)
(* direction, cloud cover, UV index, visibility: humidity comes from the   *)
(* 2nd draw, rainfall from the 3rd and feels-like from the 4th.            *)
(***************************************************************************)
C14_SourceDrawOrder ==
    ret.op = "generate_mock_weather" =>
        ret.val = ObservationByOrder(SourceDrawOrder, ReturnedStreamStart,
                                     ret.args.lat)

\* an observation that tells the two orders apart in humidity and rainfall
C14_Witness ==
    /\ ret.op = "generate_mock_weather"
    /\ LET listed == ObservationByOrder(ListedDrawOrder, ReturnedStreamStart,
                                        ret.args.lat)
       IN  /\ ret.val.humidity # listed.humidity
           /\ ret.val.rainfall # listed.rainfall
           /\ ret.val.feels_like # listed.feels_like

(***************************************************************************)
(* C15.  The seeded stream of a synthesis call is local to the call: the   *)
(* value generate_otp returns does not depend on the generate_mock_weather *)
(* and calculate_sustainability_trends calls that ran before it, so a      *)
(* synthesis call leaves the one-time password that would be drawn next    *)
(* as it was.                                                              *)
(***************************************************************************)
C15_StreamLocal ==
    [][(ret = NoCall /\ ret'.op \in Tracked)
           => generate_otp(rng').v = generate_otp(rng).v]_vars

\* the calendar day (days since 1 January) an instant falls on
CalendarDay(t) == t \div TicksPerDay

(***************************************************************************)
(* C16.  Within one /climate/data or /climate/scenario request the current *)
(* observation, the historical points and the forecast points are derived  *)
(* from one instant, also when the wall clock advances during the request: *)
(* the historical points are dated exactly 10, .., 1 days before that      *)
(* instant, the forecast points exactly 1, .., 10 days after it, and none  *)
(* of them falls on the calendar day of the current observation.           *)
(***************************************************************************)
C16_SingleNow ==
    ret.op \in {"get_climate_data", "simulate_scenario"} =>
        LET now == ret.now[1]
            historical == IF ret.op = "get_climate_data"
                          THEN ret.val.historical
                          ELSE generate_historical_data(
                                   0, ret.now[2], ret.args.lat,
                                   ret.args.lon, 10).val
            forecast == IF ret.op = "get_climate_data"
                        THEN ret.val.forecast ELSE <<>>
        IN  /\ \A k \in 1 .. Len(historical) :
                   /\ historical[k].date
                          = MinusDays(now, Len(historical) + 1 - k)
                   /\ CalendarDay(historical[k].date) # CalendarDay(now)
            /\ \A i \in 1 .. Len(forecast) :
                   /\ forecast[i].date = PlusDays(now, i)
                   /\ CalendarDay(forecast[i].date) # CalendarDay(now)

\* the fields of an observation that a scenario leaves alone
UnperturbedFields ==
    {"feels_like", "pressure", "wind_speed", "wind_direction", "cloud_cover",
     "uv_index", "visibility"}

(***************************************************************************)
(* C17.  simulate_scenario changes only rainfall, temperature and          *)
(* humidity: the other seven fields of modified_weather equal the          *)
(* baseline's, original_weather is the observation generate_mock_weather   *)
(* returned for the request (building the perturbed one did not change     *)
(* it), and with rainfall_change = 0 and temperature_change = 0 the two    *)
(* observations are equal.                                                 *)
(***************************************************************************)
C17_ScenarioFrame ==
    ret.op = "simulate_scenario" =>
        LET base == ret.val.original_weather
            mod == ret.val.modified_weather
        IN  /\ \A f \in UnperturbedFields : mod[f] = base[f]
            /\ DOMAIN mod = DOMAIN base
            /\ base = generate_mock_weather(0, ret.now[1], ret.args.lat,
                                            ret.args.lon, None).val
            /\ (ret.args.rainfall_change = 0
                /\ ret.args.temperature_change = 0) => mod = base

\* a scenario that changed rainfall, temperature and humidity, and one that
\* changed nothing
C17_Witness ==
    /\ ret.op = "simulate_scenario"
    /\ ret.args.rainfall_change = -60
    /\ ret.args.temperature_change = 50
    /\ ret.val.modified_weather.rainfall # ret.val.original_weather.rainfall
    /\ ret.val.modified_weather.humidity # ret.val.original_weather.humidity
    /\ ret.val.modified_weather.temperature
           = ret.val.original_weather.temperature + 500

(***************************************************************************)
(* C18.  In a scenario result each reported risk delta equals              *)
(* modified_risk[category] - original_risk[category] of the same response  *)
(* and has one decimal, and both assessments are scored against the one    *)
(* historical series of the request: they report the same historical       *)
(* averages, those of the series generated at the request's second clock   *)
(* read.                                                                   *)
(***************************************************************************)
C18_DeltasConsistent ==
    ret.op = "simulate_scenario" =>
        LET orig == ret.val.original_risk
            mod == ret.val.modified_risk
            impact == ret.val.scenario_impact
            historical == generate_historical_data(
                              0, ret.now[2], ret.args.lat, ret.args.lon, 10).val
        IN  /\ impact.drought_risk_change
                   = mod.drought_risk - orig.drought_risk
            /\ impact.flood_risk_change = mod.flood_risk - orig.flood_risk
            /\ impact.heat_stress_change = mod.heat_stress - orig.heat_stress
            /\ \A d \in {impact.drought_risk_change, impact.flood_risk_change,
                         impact.heat_stress_change} : d % 10 = 0
            /\ \A k \in {2, 4} :
                   orig.assumptions[k] = mod.assumptions[k]
            /\ orig = calculate_risk_scores(ret.val.original_weather,
                                            historical)
            /\ mod = calculate_risk_scores(ret.val.modified_weather,
                                           historical)

\* a scenario with a non-zero delta in every category
C18_Witness ==
    /\ ret.op = "simulate_scenario"
    /\ ret.val.scenario_impact.drought_risk_change # 0
    /\ ret.val.scenario_impact.flood_risk_change # 0
    /\ ret.val.scenario_impact.heat_stress_change # 0

\* the stored users that have the email of a request
SameEmail(args) ==
    {k \in 1 .. Len(users) : users[k].email = args.email}

(***************************************************************************)
(* C11.  register with an email that no stored user has, and with phone    *)
(* omitted, succeeds whatever other users are stored: a rejected           *)
(* registration of this kind names an email that a stored user has, and an *)
(* accepted one has stored one new unverified user with a fresh id whose   *)
(* OTP is the returned demo_otp.                                           *)
(***************************************************************************)
C11_EmailOnlyRegistration ==
    (ret.op = "register" /\ ret.args.email # Null /\ ret.args.phone = Null)
        => IF ret.status = 200
           THEN /\ users # <<>>
                /\ LET new == users[Len(users)]
                   IN  /\ new.id = ret.val.user_id
                       /\ new.otp = ret.val.demo_otp
                       /\ new.email = ret.args.email
                       /\ ~new.is_verified
                       /\ \A k \in 1 .. Len(users) - 1 : users[k].id # new.id
           ELSE SameEmail(ret.args) # {}

(***************************************************************************)
(* C19.  No two stored users share a non-null email or a non-null phone,   *)
(* also when the lookups and inserts of concurrent register requests       *)
(* interleave.                                                             *)
(***************************************************************************)
C19_NoDuplicateUsers ==
    \A j, k \in 1 .. Len(users) :
        j < k =>
            /\ users[j].email # Null => users[j].email # users[k].email
            /\ users[j].phone # Null => users[j].phone # users[k].phone

\* a step in which the suspended verify_otp handler c answers
VerifyAnswers(c) ==
    /\ c.op = "verify_otp"
    /\ ret = NoCall
    /\ ret' # NoCall
    /\ ret'.op = "verify_otp"
    /\ ret'.args = c.args
    /\ calls' = calls (-) SetToBag({c})

(***************************************************************************)
(* C20.  An OTP is single-use and time-limited.  A verify-otp call that    *)
(* found its user already verified (it started after a successful          *)
(* verification of that user) is rejected with 'Invalid OTP'; a call with  *)
(* an OTP other than the user's, or answered after otp_expires, is         *)
(* rejected, returns no token and changes no user; and no step of any      *)
(* operation takes is_verified from true to false.                         *)
(***************************************************************************)
C20_OtpSingleUse ==
    [][/\ \A k \in 1 .. Len(users) :
              users[k].is_verified =>
                  (k <= Len(users') /\ users'[k].is_verified)
       /\ \A c \in BagToSet(calls) :
              (VerifyAnswers(c) /\ c.user # <<>>) =>
                  LET user == c.user[1]
                      args == c.args
                  IN  /\ user.is_verified =>
                             (ret'.status = 400 /\ ret'.detail = "Invalid OTP")
                      /\ (args.otp # user.otp \/ clock > user.otp_expires) =>
                             /\ ret'.status = 400
                             /\ "val" \notin DOMAIN ret'
                             /\ users' = users
                      /\ (args.otp = user.otp /\ clock > user.otp_expires) =>
                             ret'.detail = "OTP expired"]_vars

\* the OTP of a registration is sent again after it has verified the user,
\* and is rejected
C20_Witness ==
    /\ ret.op = "verify_otp"
    /\ ret.status = 400
    /\ ret.detail = "Invalid OTP"
    /\ ret.args.otp # WrongOtp
    /\ \E k \in 1 .. Len(users) :
           /\ k \in IdentityQuery(users, ret.args)
           /\ users[k].is_verified
           /\ users[k].otp = None
           /\ ret.args.otp = generate_otp(RngBefore(rng)).v
           /\ Len(users) = 1

RegisteredIdentity(args, doc) ==
    args.email = doc.email /\ args.phone = doc.phone

(***************************************************************************)
(* C12.  For every registered user: a verify-otp with the user's email or  *)
(* phone and the OTP its registration returned, answered before            *)
(* otp_expires while the OTP is unused, succeeds, makes the user verified  *)
(* and returns a token that get_current_user resolves to that user; and a  *)
(* login of the verified user with the registered password succeeds with a *)
(* token for that user.                                                    *)
(***************************************************************************)
C12_VerifyThenLogin ==
    [][\A k \in 1 .. Len(users) :
           LET doc == users[k]
           IN  /\ \A c \in BagToSet(calls) :
                      (/\ VerifyAnswers(c)
                       /\ RegisteredIdentity(c.args, doc)
                       /\ c.args.otp = doc.otp
                       /\ ~doc.is_verified
                       /\ clock <= doc.otp_expires)
                          => /\ ret'.status = 200
                             /\ users'[k].is_verified
                             /\ ret'.val.user.id = doc.id
                             /\ LET current_user ==
                                        get_current_user(
                                            ret'.val.access_token, clock',
                                            users')
                                IN  /\ current_user.status = 200
                                    /\ current_user.user = users'[k]
               /\ (/\ ret = NoCall
                   /\ ret'.op = "login"
                   /\ RegisteredIdentity(ret'.args, doc)
                   /\ verify_password(ret'.args.password, doc.password)
                   /\ doc.is_verified)
                      => /\ ret'.status = 200
                         /\ ret'.val.access_token.sub = doc.id
                         /\ ret'.val.user.id = doc.id]_vars

====
